---- MODULE Spec2Model ----
(***************************************************************************)
(* A model of the trnsltr client: the STT connection life cycle of         *)
(* TranslationApp.tsx (connect, reconnect with backoff, stop, teardown),   *)
(* its transcript segmenter and translation dispatcher, and the TTS client *)
(* of services/tts.ts (voice switching, the serial synthesis queue and the *)
(* playback queue).                                                        *)
(*                                                                         *)
(* JavaScript runs every callback to completion, so each action is one     *)
(* macrotask (a socket event, a timer, a user gesture) together with the   *)
(* promise continuations (microtasks) it releases.                         *)
(***************************************************************************)
EXTENDS Integers, Sequences, FiniteSets, Bags, TLC

VARIABLES
  \* ---- STT session (TranslationApp.tsx) ----
  websocket,          \* websocket.current: the socket the ref points to
  detached,           \* sockets no longer referenced whose close event is still to come
  reconnectTimeout,   \* reconnectTimeout.current: the timer handle last stored
  staleTimers,        \* pending timers whose handle has been overwritten
  reconnectAttempts,  \* reconnectAttempts.current
  isConnected,        \* React state
  isListening,        \* React state
  connectionStatus,   \* React state
  mounted,            \* "init" before the effect ran, "mounted", "unmounted"
  closes,             \* history: close events since the last open / manual retry
  delayLog,           \* history: delays scheduled since the last open / manual retry
  capturing,          \* audioProcessor.current is set: the capture callback is running
  sttEvt,             \* history: what the last STT step did, what it sent on
                      \* the socket, and the transcript buffer a stop found
  \* ---- TTS session (services/tts.ts) ----
  ws,                 \* readyState of this.ws, or "null"
  onmessage,          \* setVoice wrappers stacked on the socket's message handler, outermost first
  currentVoice,
  availableVoices,
  textQueue,          \* speak calls (by number) waiting for their terminal response
  isProcessing,
  audioContext,       \* "null", or the state of this.audioContext
  audioQueue,         \* decoded chunks (by arrival number) waiting to be played
  isPlaying,
  calls,              \* the speak() calls made so far, in call order
  toServer,           \* commands sent and not yet handled by the server
  toClient,           \* server messages not yet delivered
  chunkTasks,         \* handleAudioChunk invocations suspended at an await, and
                      \* ("failed") those whose decodeAudioData rejected
  sources,            \* buffer sources started whose onended is still to come
  nChunks,            \* audio chunks the server has produced so far
  inflight,           \* history: synthesize commands sent on this socket and not yet answered
  synthLog,           \* history: the speak calls whose synthesize was sent, in send order
  playLog,            \* history: the chunks whose source was started, in start order
  nConnects,          \* connect() calls made so far
  \* ---- transcript, segments and translations (TranslationApp.tsx) ----
  translationMaxWords, \* config.translationMaxWords
  currentOriginal,    \* React state: the pending transcript buffer, a string
  translationTimer,   \* translationTimer.current: the idle timer and the text it captured
  segments,           \* React state: the segment collection
  now,                \* Date.now()
  pendingTranslations, \* pendingTranslations.current
  translations,       \* translateAsync invocations suspended at an await
  ttsEnabled,         \* React state
  ttsEnabledRef,      \* ttsEnabledRef.current
  isTtsConnected,     \* React state
  ttsToggle,          \* "connecting" while a toggleTTS invocation awaits initTTS
  appEvt,             \* history: the STT message or timer the last step handled
  limits,             \* how many speak() calls, audio chunks, STT messages and clock
                      \* ticks this behaviour may have
  frame               \* a call of resample: its arguments and what it returned

sttVars == <<websocket, detached, reconnectTimeout, staleTimers, reconnectAttempts,
             isConnected, isListening, connectionStatus, mounted, capturing, closes,
             delayLog, sttEvt>>

ttsVars == <<ws, onmessage, currentVoice, availableVoices, textQueue, isProcessing,
             audioContext, audioQueue, isPlaying, calls, toServer, toClient, chunkTasks,
             sources, nChunks, inflight, synthLog, playLog, nConnects>>

\* The transcript buffer, its idle timer and the segment collection.
segVars == <<translationMaxWords, currentOriginal, translationTimer, segments, now, appEvt>>

\* The translation dispatcher and the TTS switch.
dispVars == <<pendingTranslations, translations, ttsEnabled, ttsEnabledRef, isTtsConnected,
              ttsToggle>>

appVars == <<segVars, dispVars>>

vars == <<sttVars, ttsVars, appVars, limits, frame>>

Min(a, b) == IF a < b THEN a ELSE b

(***************************************************************************)
(* TTS session (services/tts.ts)                                           *)
(***************************************************************************)
\* The synthesis queue and the playback queue share the socket and
\* disconnect() but read none of each other's fields, so they are explored in
\* two scenarios: many speak() calls with few audio chunks, and few speak()
\* calls with many audio chunks.
MaxSpeak == 2        \* speak() calls, queue scenario
QueueChunks == 1     \* audio chunks the server produces, queue scenario
PlaybackSpeak == 1   \* speak() calls, playback scenario
MaxChunks == 2       \* audio chunks the server produces, playback scenario
MaxConnects == 2     \* connect() calls in one behaviour

QueueScenario == [speak |-> MaxSpeak, chunks |-> QueueChunks, events |-> 0, clock |-> 0]
PlaybackScenario == [speak |-> PlaybackSpeak, chunks |-> MaxChunks, events |-> 0, clock |-> 0]

\* The language codes passed to speak(); "none" is a call without one.
Languages == {"none", "en", "es"}

\* What the server offers and the voice it reports as selected.
ServerVoices == {"af_heart", "af_sky", "ef_dora"}
ServerVoice == "af_heart"

voiceMap ==
  [en |-> "af_sky", es |-> "ef_dora", fr |-> "ff_siwis", de |-> "af_sky",
   it |-> "if_sara", pt |-> "pf_dora", ru |-> "af_sky", ja |-> "jf_alpha",
   ko |-> "af_sky", zh |-> "zf_xiaoni", ar |-> "af_sky", hi |-> "hf_alpha"]

GetVoiceForLanguage(languageCode) ==
  IF languageCode \in DOMAIN voiceMap THEN voiceMap[languageCode] ELSE "af_sky"

languageMap ==
  [en |-> "en-us", es |-> "es", fr |-> "fr", de |-> "de", it |-> "it", pt |-> "pt-br",
   ru |-> "en-us", ja |-> "ja", ko |-> "en-us", zh |-> "zh-cn", ar |-> "en-us",
   hi |-> "hi"]

GetKokoroxLanguage(languageCode) ==
  IF languageCode \in DOMAIN languageMap THEN languageMap[languageCode] ELSE "en-us"

\* A command on the wire; id is the speak call it was sent for (0: none).
Cmd(c, id, voice, language) ==
  [command |-> c, id |-> id, voice |-> voice, language |-> language]

\* A server message; re names the command it answers, which the protocol
\* itself does not carry.
Msg(t, voice, voices, chunk, re) ==
  [type |-> t, voice |-> voice, voices |-> voices, chunk |-> chunk,
   re |-> [command |-> re.command, id |-> re.id]]

\* What settled a speak() promise: the type of the message (or the
\* not-connected failure) and the command that message answered.
NoCause == [type |-> "none", re |-> [command |-> "none", id |-> 0]]
NotConnected == [type |-> "not connected", re |-> [command |-> "none", id |-> 0]]
Cause(m) == [type |-> m.type, re |-> m.re]

\* The part of the service that speak, the message handler and the queue
\* processor pass through in sequence within one task.
Q == [tq |-> textQueue, ip |-> isProcessing, out |-> toServer, calls |-> calls,
      infl |-> inflight, log |-> synthLog]

SetQ(q) ==
  /\ textQueue' = q.tq
  /\ isProcessing' = q.ip
  /\ toServer' = q.out
  /\ calls' = q.calls
  /\ inflight' = q.infl
  /\ synthLog' = q.log

\* item.resolve() / item.reject(...)
Settle(q, id, st, cause) == [q EXCEPT !.calls[id].st = st, !.calls[id].by = cause]

ProcessNextInQueue(q) ==
  IF q.ip \/ q.tq = <<>> THEN q
  ELSE LET item == Head(q.tq) IN
       IF ws # "OPEN"
       THEN Settle([q EXCEPT !.tq = Tail(q.tq), !.ip = FALSE], item, "rejected", NotConnected)
       ELSE [q EXCEPT !.ip = TRUE,
                      !.out = Append(@, Cmd("synthesize", item, "", q.calls[item].language)),
                      !.infl = @ \cup {item},
                      !.log = Append(@, item)]

\* handleMessage, cases synthesis_completed and error; the other message
\* types leave the queue alone.
HandleMessage(q, m) ==
  CASE m.type = "synthesis_completed" ->
         LET q1 == IF q.tq # <<>>
                   THEN Settle([q EXCEPT !.tq = Tail(q.tq)], Head(q.tq), "resolved", Cause(m))
                   ELSE q
         IN ProcessNextInQueue([q1 EXCEPT !.ip = FALSE])
    [] m.type = "error" ->
         LET q1 == [q EXCEPT !.ip = FALSE]
             q2 == IF q1.tq # <<>>
                   THEN Settle([q1 EXCEPT !.tq = Tail(q1.tq)], Head(q1.tq), "rejected", Cause(m))
                   ELSE q1
         IN ProcessNextInQueue(q2)
    [] OTHER -> q

\* speak, from `return new Promise` on: enqueue and start the processor.
SpeakEnqueue(q, id) ==
  LET q1 == [q EXCEPT !.tq = Append(@, id), !.calls[id].st = "queued"]
  IN IF ~q1.ip THEN ProcessNextInQueue(q1) ELSE q1

\* The speak calls released by one task resume in the order their setVoice
\* promises were settled.
RECURSIVE EnqueueAll(_, _)
EnqueueAll(q, ids) ==
  IF ids = <<>> THEN q ELSE EnqueueAll(SpeakEnqueue(q, Head(ids)), Tail(ids))

\* The speak calls still awaiting their setVoice promise.
Awaiting == {j \in 1..Len(calls) : calls[j].st = "awaitVoice"}

\* translateAsync after `await ttsService.current.speak(...)`: the invocations
\* whose speak promise is settled in calls cs run their finally block.
Spoken(cs) ==
  {t \in BagToSet(translations) :
     t.st = "speaking" /\ cs[t.speak].st \in {"resolved", "rejected"}}

AfterSpeak ==
  /\ translations' = [t \in BagToSet(translations) \ Spoken(calls') |-> translations[t]]
  /\ pendingTranslations' = pendingTranslations \ {t.id : t \in Spoken(calls')}
  /\ UNCHANGED <<ttsEnabled, ttsEnabledRef, isTtsConnected, ttsToggle>>

\* toggleTTS after `await initTTS()`: initTTS records whether connect()
\* resolved, then TTS is switched on in both cases.
AfterInitTTS(connected) ==
  IF ttsToggle = "connecting"
  THEN /\ isTtsConnected' = connected
       /\ ttsEnabled' = TRUE
       /\ ttsEnabledRef' = TRUE
       /\ ttsToggle' = "idle"
       /\ UNCHANGED <<pendingTranslations, translations>>
  ELSE UNCHANGED dispVars

\* connect(): new WebSocket with the service's own message handler.
Connect ==
  /\ nConnects' = nConnects + 1
  /\ ws' = "CONNECTING"
  /\ onmessage' = <<>>
  /\ UNCHANGED <<currentVoice, availableVoices, textQueue, isProcessing, audioContext,
                 audioQueue, isPlaying, calls, toServer, toClient, chunkTasks, sources,
                 nChunks, inflight, synthLog, playLog>>

\* connect() called on a service that has no socket.
TTSConnect ==
  /\ ws = "null" /\ nConnects < MaxConnects
  /\ Connect
  /\ UNCHANGED <<sttVars, appVars, limits, frame>>

\* onopen: send list_voices and resolve the promise of connect().
TTSOnOpen ==
  /\ ws = "CONNECTING"
  /\ ws' = "OPEN"
  /\ toServer' = Append(toServer, Cmd("list_voices", 0, "", "none"))
  /\ AfterInitTTS(TRUE)
  /\ UNCHANGED <<onmessage, currentVoice, availableVoices, textQueue, isProcessing,
                 audioContext, audioQueue, isPlaying, calls, toClient, chunkTasks, sources,
                 nChunks, inflight, synthLog, playLog, nConnects, sttVars, segVars, limits, frame>>

\* The connection fails or the server goes away: onclose only logs, onerror
\* logs and rejects the promise of connect(), which has an effect only while
\* the socket was still connecting.  Nothing more is delivered on the socket.
TTSOnClose ==
  /\ ws \in {"CONNECTING", "OPEN"}
  /\ ws' = "CLOSED"
  /\ toServer' = <<>>
  /\ toClient' = <<>>
  /\ IF ws = "CONNECTING" THEN AfterInitTTS(FALSE) ELSE UNCHANGED dispVars
  /\ UNCHANGED <<onmessage, currentVoice, availableVoices, textQueue, isProcessing,
                 audioContext, audioQueue, isPlaying, calls, chunkTasks, sources, nChunks,
                 inflight, synthLog, playLog, nConnects, sttVars, segVars, limits, frame>>

\* speak(text, languageCode).  A call that needs another voice sends
\* set_voice, stacks a wrapper on the message handler and waits; every other
\* call (also one whose setVoice throws because the socket is not open)
\* enqueues its item in the same task.
SpeakCall(languageCode) ==
    LET id == Len(calls) + 1
        kokoroxLang == IF languageCode # "none" THEN GetKokoroxLanguage(languageCode)
                       ELSE "none"
        voice == GetVoiceForLanguage(languageCode)
        switch == /\ languageCode # "none"
                  /\ voice # currentVoice
                  /\ voice \in availableVoices
        call == [lang |-> languageCode, language |-> kokoroxLang, st |-> "called",
                 by |-> NoCause]
        q0 == [Q EXCEPT !.calls = Append(@, call)]
    IN /\ IF switch /\ ws = "OPEN"
          THEN /\ SetQ([q0 EXCEPT !.calls[id].st = "awaitVoice",
                                  !.out = Append(@, Cmd("set_voice", id, voice, "none"))])
               /\ onmessage' = <<id>> \o onmessage
          ELSE /\ SetQ(SpeakEnqueue(q0, id))
               /\ UNCHANGED onmessage
       /\ UNCHANGED <<ws, currentVoice, availableVoices, audioContext, audioQueue,
                      isPlaying, toClient, chunkTasks, sources, nChunks, playLog,
                      nConnects>>

\* speak() called by a client of the service, with or without a language.
Speak ==
  \E languageCode \in Languages :
    /\ Len(calls) < limits.speak
    /\ SpeakCall(languageCode)
    /\ UNCHANGED <<sttVars, appVars, limits, frame>>

\* A faulty variant: the speak call whose setVoice timed out fails instead
\* of enqueuing its item.
VoiceTimeoutRejectsSpeak ==
  \E id \in Awaiting :
    /\ \A j \in Awaiting : id <= j
    /\ SetQ(Settle(Q, id, "rejected", NoCause))
    /\ AfterSpeak
    /\ UNCHANGED <<ws, onmessage, currentVoice, availableVoices, audioContext,
                   audioQueue, isPlaying, toClient, chunkTasks, sources, nChunks, playLog,
                   nConnects, sttVars, segVars, limits, frame>>

\* The setVoice timeout of the oldest waiting call fires (all timeouts are
\* 5000 ms, so they fire in the order they were set): the promise rejects,
\* speak logs the failure and enqueues.  The wrapper stays installed.
VoiceTimeout ==
  \E id \in Awaiting :
    /\ \A j \in Awaiting : id <= j
    /\ SetQ(SpeakEnqueue(Q, id))
    /\ AfterSpeak
    /\ UNCHANGED <<ws, onmessage, currentVoice, availableVoices, audioContext,
                   audioQueue, isPlaying, toClient, chunkTasks, sources, nChunks, playLog,
                   nConnects, sttVars, segVars, limits, frame>>

\* The server handles the oldest command and queues its whole answer:
\* voices for list_voices; voice_changed or error for set_voice;
\* synthesis_started, audio chunks and synthesis_completed or error for
\* synthesize.  The client sees only the order of the messages it is
\* delivered, which is the order of the commands whenever the server takes
\* them, so the server is let to take a command once its previous answer
\* has been delivered.
RECURSIVE ChunkMsgs(_, _, _)
ChunkMsgs(first, n, re) ==
  IF n = 0 THEN <<>>
  ELSE <<Msg("audio_chunk", "", {}, first, re)>> \o ChunkMsgs(first + 1, n - 1, re)

ServerStep ==
  /\ ws = "OPEN" /\ toServer # <<>> /\ toClient = <<>>
  /\ LET c == Head(toServer)
         re == [command |-> c.command, id |-> c.id]
     IN /\ toServer' = Tail(toServer)
        /\ CASE c.command = "list_voices" ->
                  /\ toClient' = Append(toClient, Msg("voices", ServerVoice, ServerVoices, 0, re))
                  /\ UNCHANGED nChunks
             [] c.command = "set_voice" ->
                  /\ \E ok \in BOOLEAN :
                       toClient' = Append(toClient,
                                      IF ok THEN Msg("voice_changed", c.voice, {}, 0, re)
                                      ELSE Msg("error", "", {}, 0, re))
                  /\ UNCHANGED nChunks
             [] c.command = "synthesize" ->
                  \E n \in 0..(limits.chunks - nChunks), ok \in BOOLEAN :
                    /\ toClient' = toClient
                                   \o <<Msg("synthesis_started", "", {}, 0, re)>>
                                   \o ChunkMsgs(nChunks + 1, n, re)
                                   \o <<Msg(IF ok THEN "synthesis_completed" ELSE "error",
                                            "", {}, 0, re)>>
                    /\ nChunks' = nChunks + n
  /\ UNCHANGED <<ws, onmessage, currentVoice, availableVoices, textQueue, isProcessing,
                 audioContext, audioQueue, isPlaying, calls, chunkTasks, sources, inflight,
                 synthLog, playLog, nConnects, sttVars, appVars, limits, frame>>

\* playNextChunk on queue aq; started is the chunk whose source was started
\* (0: none).  With this.audioContext null, createBufferSource throws after
\* isPlaying was set and the buffer shifted.
PlayNextChunk(aq) ==
  IF aq = <<>>
  THEN [aq |-> aq, playing |-> FALSE, started |-> 0]
  ELSE [aq |-> Tail(aq), playing |-> TRUE,
        started |-> IF audioContext' = "null" THEN 0 ELSE Head(aq)]

SetAudio(r) ==
  /\ audioQueue' = r.aq
  /\ isPlaying' = r.playing
  /\ sources' = IF r.started # 0 THEN sources \cup {r.started} ELSE sources
  /\ playLog' = IF r.started # 0 THEN Append(playLog, r.started) ELSE playLog

\* A message is delivered: it passes every setVoice wrapper, outermost
\* first (voice_changed and error settle the wrapper's promise, clear its
\* timeout and uninstall it), then handleMessage; then the speak calls
\* whose setVoice was settled resume.
TTSOnMessage ==
  /\ ws = "OPEN" /\ toClient # <<>>
  /\ LET m == Head(toClient)
         settles == m.type \in {"voice_changed", "error"}
         woken == IF settles
                  THEN SelectSeq(onmessage, LAMBDA j : calls[j].st = "awaitVoice")
                  ELSE <<>>
         terminal == /\ m.type \in {"synthesis_completed", "error"}
                     /\ m.re.command = "synthesize"
         q0 == [Q EXCEPT !.infl = IF terminal THEN @ \ {m.re.id} ELSE @]
     IN /\ toClient' = Tail(toClient)
        /\ onmessage' = IF settles THEN <<>> ELSE onmessage
        /\ SetQ(EnqueueAll(HandleMessage(q0, m), woken))
        /\ AfterSpeak
        /\ availableVoices' = IF m.type = "voices" /\ m.voices # {} THEN m.voices
                              ELSE availableVoices
        /\ currentVoice' = IF m.type \in {"voices", "voice_changed"} /\ m.voice # ""
                           THEN m.voice ELSE currentVoice
        /\ IF m.type = "audio_chunk"
           THEN \* handleAudioChunk up to its first await
                /\ \E created \in {"suspended", "running"} :
                     audioContext' = IF audioContext = "null" THEN created ELSE audioContext
                /\ chunkTasks' = chunkTasks @@
                     (m.chunk :> IF audioContext' = "suspended" THEN "resume" ELSE "decode")
           ELSE UNCHANGED <<audioContext, chunkTasks>>
  /\ UNCHANGED <<ws, audioQueue, isPlaying, sources, nChunks, playLog, nConnects, sttVars,
                 segVars, limits, frame>>

\* audioContext.resume() completes: every invocation waiting for it goes on
\* to decodeAudioData.
ResumeDone ==
  /\ audioContext = "suspended"
  /\ \E c \in DOMAIN chunkTasks : chunkTasks[c] = "resume"
  /\ audioContext' = "running"
  /\ chunkTasks' = [c \in DOMAIN chunkTasks |->
                     IF chunkTasks[c] = "resume" THEN "decode" ELSE chunkTasks[c]]
  /\ UNCHANGED <<ws, onmessage, currentVoice, availableVoices, textQueue, isProcessing,
                 audioQueue, isPlaying, calls, toServer, toClient, sources, nChunks,
                 inflight, synthLog, playLog, nConnects, sttVars, appVars, limits, frame>>

\* A faulty variant: the decode continuation calls playNextChunk whether or not a
\* source is playing.
DecodeDoneAlwaysPlay ==
  \E c \in DOMAIN chunkTasks, ok \in BOOLEAN :
    /\ chunkTasks[c] = "decode"
    /\ chunkTasks' = IF ok THEN [d \in DOMAIN chunkTasks \ {c} |-> chunkTasks[d]]
                     ELSE [chunkTasks EXCEPT ![c] = "failed"]
    /\ UNCHANGED audioContext
    /\ IF ok
       THEN SetAudio(PlayNextChunk(Append(audioQueue, c)))
       ELSE UNCHANGED <<audioQueue, isPlaying, sources, playLog>>
    /\ UNCHANGED <<ws, onmessage, currentVoice, availableVoices, textQueue, isProcessing,
                   calls, toServer, toClient, nChunks, inflight, synthLog, nConnects, sttVars, appVars, limits, frame>>

\* A faulty variant: a decode failure also abandons the buffers waiting to be
\* played.
DecodeDoneFailureClears ==
  \E c \in DOMAIN chunkTasks, ok \in BOOLEAN :
    /\ chunkTasks[c] = "decode"
    /\ chunkTasks' = IF ok THEN [d \in DOMAIN chunkTasks \ {c} |-> chunkTasks[d]]
                     ELSE [chunkTasks EXCEPT ![c] = "failed"]
    /\ UNCHANGED audioContext
    /\ IF ok
       THEN IF ~isPlaying
            THEN SetAudio(PlayNextChunk(Append(audioQueue, c)))
            ELSE /\ audioQueue' = Append(audioQueue, c)
                 /\ UNCHANGED <<isPlaying, sources, playLog>>
       ELSE /\ audioQueue' = <<>>
            /\ isPlaying' = FALSE
            /\ UNCHANGED <<sources, playLog>>
    /\ UNCHANGED <<ws, onmessage, currentVoice, availableVoices, textQueue, isProcessing,
                   calls, toServer, toClient, nChunks, inflight, synthLog, nConnects, sttVars, appVars, limits, frame>>

\* decodeAudioData of one chunk completes; decodes run independently, so
\* any pending one may complete next.  A failure is logged and the chunk
\* dropped.
DecodeDone ==
  \E c \in DOMAIN chunkTasks, ok \in BOOLEAN :
    /\ chunkTasks[c] = "decode"
    /\ chunkTasks' = IF ok THEN [d \in DOMAIN chunkTasks \ {c} |-> chunkTasks[d]]
                     ELSE [chunkTasks EXCEPT ![c] = "failed"]
    /\ UNCHANGED audioContext
    /\ IF ok
       THEN IF ~isPlaying
            THEN SetAudio(PlayNextChunk(Append(audioQueue, c)))
            ELSE /\ audioQueue' = Append(audioQueue, c)
                 /\ UNCHANGED <<isPlaying, sources, playLog>>
       ELSE UNCHANGED <<audioQueue, isPlaying, sources, playLog>>
    /\ UNCHANGED <<ws, onmessage, currentVoice, availableVoices, textQueue, isProcessing,
                   calls, toServer, toClient, nChunks, inflight, synthLog, nConnects, sttVars, appVars, limits, frame>>

\* source.onended: playNextChunk.
OnEnded ==
  \E c \in sources :
    /\ audioContext = "running"
    /\ UNCHANGED audioContext
    /\ LET r == PlayNextChunk(audioQueue)
       IN /\ audioQueue' = r.aq
          /\ isPlaying' = r.playing
          /\ sources' = (sources \ {c}) \cup (IF r.started # 0 THEN {r.started} ELSE {})
          /\ playLog' = IF r.started # 0 THEN Append(playLog, r.started) ELSE playLog
    /\ UNCHANGED <<ws, onmessage, currentVoice, availableVoices, textQueue, isProcessing,
                   calls, toServer, toClient, chunkTasks, nChunks, inflight, synthLog,
                   nConnects, sttVars, appVars, limits, frame>>

\* A faulty variant: disconnect() also forgets the voices.
DisconnectResetsVoice ==
  /\ ws' = "null"
  /\ onmessage' = <<>>
  /\ toServer' = <<>>
  /\ toClient' = <<>>
  /\ inflight' = {}
  /\ audioContext' = "null"
  /\ sources' = {}
  /\ chunkTasks' = [c \in {d \in DOMAIN chunkTasks : chunkTasks[d] = "decode"} |-> "decode"]
  /\ audioQueue' = <<>>
  /\ textQueue' = <<>>
  /\ isPlaying' = FALSE
  /\ isProcessing' = FALSE
  /\ currentVoice' = "af_sky"
  /\ availableVoices' = {}
  /\ UNCHANGED <<calls, nChunks, synthLog, playLog, nConnects>>

\* A faulty variant: disconnect() closes the socket and the audio context but
\* keeps the queues and the flags.
DisconnectKeepsQueues ==
  /\ ws' = "null"
  /\ onmessage' = <<>>
  /\ toServer' = <<>>
  /\ toClient' = <<>>
  /\ inflight' = {}
  /\ audioContext' = "null"
  /\ sources' = {}
  /\ chunkTasks' = [c \in {d \in DOMAIN chunkTasks : chunkTasks[d] = "decode"} |-> "decode"]
  /\ UNCHANGED <<audioQueue, textQueue, isPlaying, isProcessing, currentVoice,
                 availableVoices, calls, nChunks, synthLog, playLog, nConnects>>

\* disconnect().  The closed socket delivers nothing more, so the handlers
\* installed on it are dead; the closed AudioContext stops rendering, so its
\* sources never end and resume() never completes on it.  Pending decodes
\* and setVoice timeouts stay pending.
Disconnect ==
  /\ ws' = "null"
  /\ onmessage' = <<>>
  /\ toServer' = <<>>
  /\ toClient' = <<>>
  /\ inflight' = {}
  /\ audioContext' = "null"
  /\ sources' = {}
  /\ chunkTasks' = [c \in {d \in DOMAIN chunkTasks : chunkTasks[d] = "decode"} |-> "decode"]
  /\ audioQueue' = <<>>
  /\ textQueue' = <<>>
  /\ isPlaying' = FALSE
  /\ isProcessing' = FALSE
  /\ UNCHANGED <<currentVoice, availableVoices, calls, nChunks, synthLog, playLog,
                 nConnects>>

TTSDisconnect ==
  /\ Disconnect
  /\ UNCHANGED <<sttVars, appVars, limits, frame>>

InitTTS ==
  /\ ws = "null"
  /\ onmessage = <<>>
  /\ currentVoice = "af_sky"
  /\ availableVoices = {}
  /\ textQueue = <<>>
  /\ isProcessing = FALSE
  /\ audioContext = "null"
  /\ audioQueue = <<>>
  /\ isPlaying = FALSE
  /\ calls = <<>>
  /\ toServer = <<>>
  /\ toClient = <<>>
  /\ chunkTasks = [c \in {} |-> "decode"]
  /\ sources = {}
  /\ nChunks = 0
  /\ inflight = {}
  /\ synthLog = <<>>
  /\ playLog = <<>>
  /\ nConnects = 0

(***************************************************************************)
(* Transcript segmentation and translation dispatch (TranslationApp.tsx)   *)
(***************************************************************************)
\* Text is a sequence of characters.  A state updater passed to
\* setCurrentOriginal is taken to run when the word is handled, before the
\* next event.
MaxEvents == 4       \* STT messages handled, segmenter scenario
MaxWordsCfg == 2     \* the largest configured translationMaxWords explored
TranslateEvents == 3 \* STT messages handled, translation scenario
MaxClock == 1        \* the values Date.now() takes, less one, translation scenario
DispatchEvents == 2  \* STT messages handled, dispatch scenario

SegmenterScenario == [speak |-> 0, chunks |-> 0, events |-> MaxEvents, clock |-> 0]
TranslateScenario ==
  [speak |-> 0, chunks |-> 0, events |-> TranslateEvents, clock |-> MaxClock]
DispatchScenario ==
  [speak |-> DispatchEvents, chunks |-> 0, events |-> DispatchEvents, clock |-> 1]

\* One translated segment is spoken, with audio, while the user switches TTS.
ToggleScenario ==
  [speak |-> PlaybackSpeak, chunks |-> MaxChunks, events |-> PlaybackSpeak, clock |-> 0]

\* defaultConfig.translationMaxWords when the environment does not set it.
DefaultMaxWords == 30

\* The values of message.word: a word, two words that end a sentence, a
\* blank, and the empty (or missing) word.
Words == {<<"a">>, <<"b", ".">>, <<"c", "fw?">>, <<" ">>, <<>>}

\* The values of message.text of a final event; <<>> is an empty or missing text.
FinalTexts == {<<"a", " ", "b", ".">>, <<" ">>, <<>>}

\* The target languages the user can have selected when a translation is dispatched.
TargetLanguages == {"en", "es"}

IsSpace(c) == c = " "

RECURSIVE Trim(_)
Trim(text) ==
  IF text # <<>> /\ IsSpace(Head(text)) THEN Trim(Tail(text))
  ELSE IF text # <<>> /\ IsSpace(text[Len(text)]) THEN Trim(SubSeq(text, 1, Len(text) - 1))
  ELSE text

\* . ! ? and their full-width forms U+3002, U+FF01, U+FF1F.
SentenceEnders == {".", "!", "?", "fw.", "fw!", "fw?"}

\* /[.!?...]\s*$/.test(text.trim())
detectSentenceEnd(text) ==
  LET t == Trim(text)
  IN \E i \in 1..Len(t) :
       /\ t[i] \in SentenceEnders
       /\ \A j \in (i + 1)..Len(t) : IsSpace(t[j])

\* text.trim().split(/\s+/).filter(word => word.length > 0).length
countWords(text) ==
  LET t == Trim(text)
  IN Cardinality({i \in 1..Len(t) : ~IsSpace(t[i]) /\ (i = 1 \/ IsSpace(t[i - 1]))})

\* A faulty variant: only the length trigger.
shouldTriggerLengthOnly(text) == countWords(text) >= translationMaxWords

\* A faulty variant: the length trigger fires one word late.
shouldTriggerOneWordLate(text) ==
  detectSentenceEnd(text) \/ countWords(text) > translationMaxWords

shouldTriggerTranslation(text) ==
  detectSentenceEnd(text) \/ countWords(text) >= translationMaxWords

NoTranslationTimer == [pending |-> FALSE, text |-> <<>>]

\* A faulty variant: the timer captures the buffer as it was before the word.
startTranslationTimerStale(text) == [pending |-> TRUE, text |-> currentOriginal]

\* startTranslationTimer(text): the previous timer is cleared and a new one
\* set whose callback holds text.
startTranslationTimer(text) == [pending |-> TRUE, text |-> text]

\* A new segment: id is Date.now().toString(), timestamp is new Date().
Segment(text) == [id |-> now, original |-> text, translated |-> <<>>, timestamp |-> now]

\* What the translation backend returns for a text.
Translate(text) == <<"~">> \o text

\* A suspended translateAsync invocation; speak is the speak() call it
\* awaits, tts (history) whether TTS was switched on when it was dispatched.
Invocation(id, text, st, speak, tts) ==
  [id |-> id, text |-> text, st |-> st, speak |-> speak, tts |-> tts]

\* History: the step handled the STT message or idle timer op with argument
\* arg, or the result arg of a translation dispatched with TTS on or off
\* (tts) that did or did not call speak (spoke), op being "failed" when the
\* translation returned an error; n counts the STT messages.
Evt(op, arg, n, tts, spoke) == [op |-> op, arg |-> arg, n |-> n, tts |-> tts, spoke |-> spoke]

\* A faulty variant: translateAsync without the check of the pending set.
TranslateAsyncNoGuard(text, segmentId) ==
  /\ pendingTranslations' = pendingTranslations \cup {segmentId}
  /\ translations' = translations (+) SetToBag({Invocation(segmentId, text, "translating", 0, ttsEnabledRef)})

\* translateAsync up to `await translateText(...)`.
TranslateAsync(text, segmentId) ==
  IF segmentId \in pendingTranslations
  THEN UNCHANGED <<pendingTranslations, translations>>
  ELSE /\ pendingTranslations' = pendingTranslations \cup {segmentId}
       /\ translations' = translations (+) SetToBag({Invocation(segmentId, text, "translating", 0, ttsEnabledRef)})

\* Append a segment for text and dispatch its translation.
Flush(text) ==
  /\ segments' = Append(segments, Segment(text))
  /\ TranslateAsync(text, now)

\* handleEarsMessage, type 'word'.
WordEvent ==
  \E word \in Words :
    /\ websocket.rs = "OPEN" /\ appEvt.n < limits.events
    /\ appEvt' = Evt("word", word, appEvt.n + 1, FALSE, FALSE)
    /\ LET newText == currentOriginal \o <<" ">> \o word
       IN IF word = <<>>
          THEN UNCHANGED <<currentOriginal, translationTimer, segments, pendingTranslations,
                           translations>>
          ELSE IF shouldTriggerTranslation(newText)
          THEN /\ translationTimer' = NoTranslationTimer
               /\ Flush(Trim(newText))
               /\ currentOriginal' = <<>>
          ELSE /\ translationTimer' = startTranslationTimer(newText)
               /\ currentOriginal' = newText
               /\ UNCHANGED <<segments, pendingTranslations, translations>>
    /\ UNCHANGED <<translationMaxWords, now, ttsEnabled, ttsEnabledRef, isTtsConnected,
                   ttsToggle, sttVars, ttsVars, limits, frame>>

\* handleEarsMessage, type 'final'.
FinalEvent ==
  \E text \in FinalTexts :
    /\ websocket.rs = "OPEN" /\ appEvt.n < limits.events
    /\ appEvt' = Evt("final", text, appEvt.n + 1, FALSE, FALSE)
    /\ IF text # <<>>
       THEN /\ translationTimer' = NoTranslationTimer
            /\ IF Trim(text) # <<>>
               THEN Flush(Trim(text))
               ELSE UNCHANGED <<segments, pendingTranslations, translations>>
            /\ currentOriginal' = <<>>
       ELSE UNCHANGED <<currentOriginal, translationTimer, segments, pendingTranslations,
                        translations>>
    /\ UNCHANGED <<translationMaxWords, now, ttsEnabled, ttsEnabledRef, isTtsConnected,
                   ttsToggle, sttVars, ttsVars, limits, frame>>

\* A faulty variant: a frame that is not JSON is handled like a final
\* message without text that also discards the buffer and its timer.
MalformedEventResets ==
  /\ websocket.rs = "OPEN" /\ appEvt.n < limits.events
  /\ appEvt' = Evt("malformed", <<>>, appEvt.n + 1, FALSE, FALSE)
  /\ currentOriginal' = <<>>
  /\ translationTimer' = NoTranslationTimer
  /\ UNCHANGED <<translationMaxWords, segments, now, dispVars, sttVars, ttsVars, limits, frame>>

\* onmessage with data that JSON.parse rejects (text that is not JSON, or a
\* binary frame): the catch block logs and handleEarsMessage is not called.
MalformedEvent ==
  /\ websocket.rs = "OPEN" /\ appEvt.n < limits.events
  /\ appEvt' = Evt("malformed", <<>>, appEvt.n + 1, FALSE, FALSE)
  /\ UNCHANGED <<translationMaxWords, currentOriginal, translationTimer, segments, now,
                 dispVars, sttVars, ttsVars, limits, frame>>

\* The callback of startTranslationTimer, config.translationTimeoutMs after
\* the word that set it.
IdleTimerFire ==
  /\ translationTimer.pending
  /\ translationTimer' = NoTranslationTimer
  /\ appEvt' = Evt("idle", translationTimer.text, appEvt.n, FALSE, FALSE)
  /\ IF Trim(translationTimer.text) # <<>>
     THEN /\ Flush(Trim(translationTimer.text))
          /\ currentOriginal' = <<>>
     ELSE UNCHANGED <<currentOriginal, segments, pendingTranslations, translations>>
  /\ UNCHANGED <<translationMaxWords, now, ttsEnabled, ttsEnabledRef, isTtsConnected,
                 ttsToggle, sttVars, ttsVars, limits, frame>>

\* A millisecond passes.
Tick ==
  /\ now < limits.clock
  /\ now' = now + 1
  /\ UNCHANGED <<translationMaxWords, currentOriginal, translationTimer, segments, appEvt,
                 dispVars, sttVars, ttsVars, limits, frame>>

\* clearHistory; a click that finds nothing to clear changes nothing.
clearHistory ==
  /\ mounted = "mounted"
  /\ segments # <<>> \/ currentOriginal # <<>> \/ translationTimer.pending
  /\ translationTimer' = NoTranslationTimer
  /\ segments' = <<>>
  /\ currentOriginal' = <<>>
  /\ UNCHANGED <<translationMaxWords, now, appEvt, dispVars, sttVars, ttsVars, limits, frame>>

\* A faulty variant: the result is written to the newest segment.
SetTranslatedLast(segs, segmentId, translatedText) ==
  [i \in DOMAIN segs |->
     IF i = Len(segs) THEN [segs[i] EXCEPT !.translated = translatedText] ELSE segs[i]]

\* setSegments(prev => prev.map(seg => seg.id === segmentId ? {...} : seg))
SetTranslated(segs, segmentId, translatedText) ==
  [i \in DOMAIN segs |->
     IF segs[i].id = segmentId THEN [segs[i] EXCEPT !.translated = translatedText]
     ELSE segs[i]]

\* A faulty variant: the decision to speak is taken when the translation is
\* dispatched, not when it resolves.
TranslationResolvedStaleFlag ==
  \E t \in BagToSet(translations), outcome \in {"text", "empty", "error"} :
    LET translatedText == IF outcome = "text" THEN Translate(t.text) ELSE <<>>
        rest == translations (-) SetToBag({t})
        id == Len(calls) + 1
    IN /\ t.st = "translating"
       /\ segments' = IF outcome = "error" THEN segments
                      ELSE SetTranslated(segments, t.id, translatedText)
       /\ IF outcome # "error" /\ t.tts /\ translatedText # <<>>
          THEN /\ \E currentTargetLang \in TargetLanguages : SpeakCall(currentTargetLang)
               /\ IF calls'[id].st \in {"resolved", "rejected"}
                  THEN /\ translations' = rest
                       /\ pendingTranslations' = pendingTranslations \ {t.id}
                  ELSE /\ translations' =
                            rest (+) SetToBag({Invocation(t.id, t.text, "speaking", id, t.tts)})
                       /\ UNCHANGED pendingTranslations
          ELSE /\ translations' = rest
               /\ pendingTranslations' = pendingTranslations \ {t.id}
               /\ UNCHANGED ttsVars
       /\ appEvt' = Evt(IF outcome = "error" THEN "failed" ELSE "translated", translatedText, appEvt.n, t.tts, Len(calls') > Len(calls))
       /\ UNCHANGED <<translationMaxWords, currentOriginal, translationTimer, now,
                      ttsEnabled, ttsEnabledRef, isTtsConnected, ttsToggle, sttVars, limits, frame>>

\* A faulty variant: a translation that returned an error stays in progress
\* and is tried again.
TranslationResolvedRetries ==
  \E t \in BagToSet(translations), outcome \in {"text", "empty", "error"} :
    LET translatedText == IF outcome = "text" THEN Translate(t.text) ELSE <<>>
        rest == translations (-) SetToBag({t})
        id == Len(calls) + 1
    IN /\ t.st = "translating"
       /\ segments' = IF outcome = "error" THEN segments
                      ELSE SetTranslated(segments, t.id, translatedText)
       /\ IF outcome # "error" /\ ttsEnabledRef /\ ws = "OPEN" /\ translatedText # <<>>
          THEN /\ \E currentTargetLang \in TargetLanguages : SpeakCall(currentTargetLang)
               /\ IF calls'[id].st \in {"resolved", "rejected"}
                  THEN /\ translations' = rest
                       /\ pendingTranslations' = pendingTranslations \ {t.id}
                  ELSE /\ translations' =
                            rest (+) SetToBag({Invocation(t.id, t.text, "speaking", id, t.tts)})
                       /\ UNCHANGED pendingTranslations
          ELSE /\ IF outcome = "error"
                  THEN UNCHANGED <<translations, pendingTranslations>>
                  ELSE /\ translations' = rest
                       /\ pendingTranslations' = pendingTranslations \ {t.id}
               /\ UNCHANGED ttsVars
       /\ appEvt' = Evt(IF outcome = "error" THEN "failed" ELSE "translated", translatedText,
                        appEvt.n, t.tts, Len(calls') > Len(calls))
       /\ UNCHANGED <<translationMaxWords, currentOriginal, translationTimer, now,
                      ttsEnabled, ttsEnabledRef, isTtsConnected, ttsToggle, sttVars, limits, frame>>

\* translateAsync from the return of translateText on: an error result
\* returns; otherwise the segment is updated and, with TTS switched on and
\* connected and a non-empty translation, speak is called and awaited.  The
\* finally block removes the id from the pending set.
TranslationResolved ==
  \E t \in BagToSet(translations), outcome \in {"text", "empty", "error"} :
    LET translatedText == IF outcome = "text" THEN Translate(t.text) ELSE <<>>
        rest == translations (-) SetToBag({t})
        id == Len(calls) + 1
    IN /\ t.st = "translating"
       /\ segments' = IF outcome = "error" THEN segments
                      ELSE SetTranslated(segments, t.id, translatedText)
       /\ IF outcome # "error" /\ ttsEnabledRef /\ ws = "OPEN" /\ translatedText # <<>>
          THEN /\ \E currentTargetLang \in TargetLanguages : SpeakCall(currentTargetLang)
               /\ IF calls'[id].st \in {"resolved", "rejected"}
                  THEN /\ translations' = rest
                       /\ pendingTranslations' = pendingTranslations \ {t.id}
                  ELSE /\ translations' =
                            rest (+) SetToBag({Invocation(t.id, t.text, "speaking", id, t.tts)})
                       /\ UNCHANGED pendingTranslations
          ELSE /\ translations' = rest
               /\ pendingTranslations' = pendingTranslations \ {t.id}
               /\ UNCHANGED ttsVars
       /\ appEvt' = Evt(IF outcome = "error" THEN "failed" ELSE "translated", translatedText, appEvt.n, t.tts, Len(calls') > Len(calls))
       /\ UNCHANGED <<translationMaxWords, currentOriginal, translationTimer, now,
                      ttsEnabled, ttsEnabledRef, isTtsConnected, ttsToggle, sttVars, limits, frame>>

InitApp ==
  /\ translationMaxWords \in (0..MaxWordsCfg) \cup {DefaultMaxWords}
  /\ currentOriginal = <<>>
  /\ translationTimer = NoTranslationTimer
  /\ segments = <<>>
  /\ now = 0
  /\ pendingTranslations = {}
  /\ translations = EmptyBag
  /\ ttsEnabled = FALSE
  /\ ttsEnabledRef = FALSE
  /\ isTtsConnected = FALSE
  /\ ttsToggle = "idle"
  /\ appEvt = Evt("init", <<>>, 0, FALSE, FALSE)

(***************************************************************************)
(* STT session                                                             *)
(***************************************************************************)
maxReconnectAttempts == 5

\* A socket: readyState, whether it ever fired onopen, and why the client
\* expects it to close ("stop": a stop message was sent on it, "local": the
\* client called close() on it, "none": the client did nothing to end it).
NoSocket == [rs |-> "null", wasOpen |-> FALSE, why |-> "none"]
NewSocket == [rs |-> "CONNECTING", wasOpen |-> FALSE, why |-> "none"]

NoTimer == [pending |-> FALSE, delay |-> 0]
Timer(d) == [pending |-> TRUE, delay |-> d]

Status(s) == [s |-> s, delay |-> 0, attempt |-> 0]
Reconnecting(d, n) == [s |-> "Reconnecting", delay |-> d, attempt |-> n]
MaxReached == Status("Max reconnection attempts reached. Click to retry.")

\* A faulty variant: a linear instead of an exponential backoff.
BackoffDelayLinear(attempts) == Min(1000 * (attempts + 1), 30000)

\* Math.min(1000 * Math.pow(2, attempts), 30000)
BackoffDelay(attempts) == Min(1000 * (2 ^ attempts), 30000)

\* WebSocket.close(): a CONNECTING or OPEN socket starts closing; otherwise no effect.
CloseSocket(s) ==
  IF s.rs \in {"CONNECTING", "OPEN"} THEN [s EXCEPT !.rs = "CLOSING", !.why = "local"] ELSE s

\* A socket that still has a close event to deliver once the ref has dropped it.
Detach(s) == IF s.rs \in {"CONNECTING", "OPEN", "CLOSING"} THEN SetToBag({s}) ELSE EmptyBag

\* A faulty variant: connectWebSocket without its early return.
ConnectWebSocketNoGuard ==
  /\ detached' = detached (+) Detach(CloseSocket(websocket))
  /\ websocket' = NewSocket
  /\ connectionStatus' = Status("Connecting...")

ConnectWebSocket ==
  IF websocket.rs \in {"OPEN", "CONNECTING"}
  THEN UNCHANGED <<websocket, detached, connectionStatus>>
  ELSE /\ detached' = detached (+) Detach(CloseSocket(websocket))
       /\ websocket' = NewSocket
       /\ connectionStatus' = Status("Connecting...")

\* useEffect(() => { connectWebSocket(); ... }, [])
Mount ==
  /\ mounted = "init"
  /\ mounted' = "mounted"
  /\ ConnectWebSocket
  /\ UNCHANGED <<ttsVars, appVars, limits, frame>>
  /\ sttEvt' = [op |-> "mount", wasOpen |-> FALSE, why |-> "none", scheduled |-> FALSE,
                sent |-> "none", buffer |-> <<>>]
  /\ UNCHANGED <<reconnectTimeout, staleTimers, reconnectAttempts, isConnected,
                 isListening, closes, delayLog, capturing>>

OnOpen ==
  /\ websocket.rs = "CONNECTING"
  /\ websocket' = [websocket EXCEPT !.rs = "OPEN", !.wasOpen = TRUE]
  /\ isConnected' = TRUE
  /\ connectionStatus' = Status("Connected")
  /\ reconnectAttempts' = 0
  /\ closes' = 0
  /\ delayLog' = <<>>
  /\ UNCHANGED <<ttsVars, appVars, limits, frame>>
  /\ sttEvt' = [op |-> "open", wasOpen |-> TRUE, why |-> "none", scheduled |-> FALSE,
                sent |-> "none", buffer |-> <<>>]
  /\ UNCHANGED <<detached, reconnectTimeout, staleTimers, isListening, mounted, capturing>>

\* A faulty variant: onclose keeps scheduling a reconnect after the maximum is reached.
OnCloseHandlerAlwaysRetry(s) ==
  /\ isConnected' = FALSE
  /\ isListening' = FALSE
  /\ closes' = closes + 1
  /\ reconnectAttempts' = Min(reconnectAttempts + 1, maxReconnectAttempts)
  /\ connectionStatus' =
       IF reconnectAttempts < maxReconnectAttempts
       THEN Reconnecting(BackoffDelay(reconnectAttempts), reconnectAttempts + 1)
       ELSE MaxReached
  /\ reconnectTimeout' = Timer(BackoffDelay(reconnectAttempts))
  /\ staleTimers' = IF reconnectTimeout.pending
                    THEN staleTimers (+) SetToBag({reconnectTimeout.delay})
                    ELSE staleTimers
  /\ delayLog' = IF reconnectAttempts < maxReconnectAttempts
                 THEN Append(delayLog, BackoffDelay(reconnectAttempts)) ELSE delayLog
  /\ sttEvt' = [op |-> "close", wasOpen |-> s.wasOpen, why |-> s.why, scheduled |-> TRUE,
                sent |-> "none", buffer |-> <<>>]

\* The body of onclose, for a socket s that has just closed.
OnCloseHandler(s) ==
  /\ isConnected' = FALSE
  /\ isListening' = FALSE
  /\ closes' = closes + 1
  /\ IF reconnectAttempts < maxReconnectAttempts
     THEN /\ reconnectAttempts' = reconnectAttempts + 1
          /\ connectionStatus' =
               Reconnecting(BackoffDelay(reconnectAttempts), reconnectAttempts + 1)
          /\ reconnectTimeout' = Timer(BackoffDelay(reconnectAttempts))
          /\ staleTimers' = IF reconnectTimeout.pending
                            THEN staleTimers (+) SetToBag({reconnectTimeout.delay})
                            ELSE staleTimers
          /\ delayLog' = Append(delayLog, BackoffDelay(reconnectAttempts))
          /\ sttEvt' = [op |-> "close", wasOpen |-> s.wasOpen, why |-> s.why,
                        scheduled |-> TRUE, sent |-> "none", buffer |-> <<>>]
     ELSE /\ connectionStatus' = MaxReached
          /\ sttEvt' = [op |-> "close", wasOpen |-> s.wasOpen, why |-> s.why,
                        scheduled |-> FALSE, sent |-> "none", buffer |-> <<>>]
          /\ UNCHANGED <<reconnectAttempts, reconnectTimeout, staleTimers, delayLog>>

\* A close event: of the socket the ref points to (the connection failed,
\* dropped, was closed by the server, or finished closing after close()), or
\* of a socket the ref no longer points to.  A failed connection fires
\* onerror (status 'Error') in the same task just before onclose, which
\* overwrites the status.
OnClose ==
  \E s \in {websocket} \cup BagToSet(detached) :
    /\ s.rs \in {"CONNECTING", "OPEN", "CLOSING"}
    /\ IF s = websocket
       THEN websocket' = [websocket EXCEPT !.rs = "CLOSED"] /\ UNCHANGED detached
       ELSE detached' = detached (-) SetToBag({s}) /\ UNCHANGED websocket
    /\ OnCloseHandler(s)
    /\ UNCHANGED <<mounted, capturing>>
    /\ UNCHANGED <<ttsVars, appVars, limits, frame>>

\* The reconnect timer fires: () => { connectWebSocket(); }
TimerFire ==
  /\ \E t \in (IF reconnectTimeout.pending THEN {"current"} ELSE {})
                \cup BagToSet(staleTimers) :
       IF t = "current"
       THEN reconnectTimeout' = [reconnectTimeout EXCEPT !.pending = FALSE]
            /\ UNCHANGED staleTimers
       ELSE staleTimers' = staleTimers (-) SetToBag({t}) /\ UNCHANGED reconnectTimeout
  /\ ConnectWebSocket
  /\ UNCHANGED <<ttsVars, appVars, limits, frame>>
  /\ sttEvt' = [op |-> "timer", wasOpen |-> FALSE, why |-> "none", scheduled |-> FALSE,
                sent |-> "none", buffer |-> <<>>]
  /\ UNCHANGED <<reconnectAttempts, isConnected, isListening, mounted, closes, delayLog,
                 capturing>>

\* The button that calls toggleListening is rendered with
\* disabled={!isConnected && connectionStatus !== 'Connecting...'}.
ButtonEnabled == isConnected \/ connectionStatus = Status("Connecting...")

\* toggleListening, branch !isConnected: the manual retry.
ManualRetry ==
  /\ mounted = "mounted" /\ ButtonEnabled
  /\ ~isConnected
  /\ reconnectAttempts' = 0
  /\ closes' = 0
  /\ delayLog' = <<>>
  /\ ConnectWebSocket
  /\ UNCHANGED <<ttsVars, appVars, limits, frame>>
  /\ sttEvt' = [op |-> "retry", wasOpen |-> FALSE, why |-> "none", scheduled |-> FALSE,
                sent |-> "none", buffer |-> <<>>]
  /\ UNCHANGED <<reconnectTimeout, staleTimers, isConnected, isListening, mounted,
                 capturing>>

\* toggleListening, branch isListening: stop. resetTranslationTimer cancels
\* the idle timer, stopAudioCapture ends the capture, sendWebSocketMessage sends
\* {type:'stop'} only on an OPEN socket; the server then closes the connection.
StopListening ==
  /\ mounted = "mounted" /\ ButtonEnabled
  /\ isConnected /\ isListening
  /\ websocket' = IF websocket.rs = "OPEN" THEN [websocket EXCEPT !.why = "stop"]
                  ELSE websocket
  /\ isListening' = FALSE
  /\ capturing' = FALSE
  /\ translationTimer' = NoTranslationTimer
  /\ UNCHANGED <<translationMaxWords, currentOriginal, segments, now, appEvt, dispVars,
                 ttsVars, limits, frame>>
  /\ sttEvt' = [op |-> "stop", wasOpen |-> FALSE, why |-> "none", scheduled |-> FALSE,
                sent |-> IF websocket.rs = "OPEN" THEN "stop" ELSE "none",
                buffer |-> currentOriginal]
  /\ UNCHANGED <<detached, reconnectTimeout, staleTimers, reconnectAttempts, isConnected,
                 connectionStatus, mounted, closes, delayLog>>

\* toggleListening, last branch: start listening.  The segments and the
\* transcript buffer are cleared; startAudioCapture either
\* installs the capture callback or fails (getUserMedia rejects) and logs;
\* setIsListening(true) follows in both cases.  Nothing is sent on the socket.
StartListening ==
  /\ mounted = "mounted" /\ ButtonEnabled
  /\ isConnected /\ ~isListening
  /\ isListening' = TRUE
  /\ \E ok \in BOOLEAN : capturing' = ok
  /\ segments' = <<>>
  /\ currentOriginal' = <<>>
  /\ UNCHANGED <<translationMaxWords, translationTimer, now, appEvt, dispVars, ttsVars,
                 limits, frame>>
  /\ sttEvt' = [op |-> "start", wasOpen |-> FALSE, why |-> "none", scheduled |-> FALSE,
                sent |-> "none", buffer |-> <<>>]
  /\ UNCHANGED <<websocket, detached, reconnectTimeout, staleTimers, reconnectAttempts,
                 isConnected, connectionStatus, mounted, closes, delayLog>>

\* A faulty variant: the capture callback sends without looking at the socket.
AudioProcessNoGuard ==
  /\ capturing
  /\ sttEvt' = [op |-> "audio", wasOpen |-> FALSE, why |-> "none", scheduled |-> FALSE,
                sent |-> "audio", buffer |-> <<>>]
  /\ UNCHANGED <<websocket, detached, reconnectTimeout, staleTimers, reconnectAttempts,
                 isConnected, isListening, connectionStatus, mounted, closes, delayLog,
                 capturing, appVars, ttsVars, limits, frame>>

\* onaudioprocess, the callback installed by startAudioCapture: the frame is
\* resampled and sent if the socket the ref points to is OPEN, and dropped
\* otherwise.  sent records what the step put on the socket (history).
AudioProcess ==
  /\ capturing
  /\ sttEvt' = [op |-> "audio", wasOpen |-> FALSE, why |-> "none", scheduled |-> FALSE,
                sent |-> IF websocket.rs = "OPEN" THEN "audio" ELSE "none",
                buffer |-> <<>>]
  /\ UNCHANGED <<websocket, detached, reconnectTimeout, staleTimers, reconnectAttempts,
                 isConnected, isListening, connectionStatus, mounted, closes, delayLog,
                 capturing, appVars, ttsVars, limits, frame>>

\* The cleanup of the mount effect: clearTimeout(reconnectTimeout.current),
\* resetTranslationTimer(), stopAudioCapture(), websocket.current.close(), ttsService.current.disconnect()
\* (before the service exists there is nothing to disconnect, and disconnect
\* leaves the initial state of the service as it is).  The ref keeps pointing to the socket.
Unmount ==
  /\ mounted = "mounted"
  /\ mounted' = "unmounted"
  /\ reconnectTimeout' = [reconnectTimeout EXCEPT !.pending = FALSE]
  /\ websocket' = CloseSocket(websocket)
  /\ capturing' = FALSE
  /\ Disconnect
  /\ translationTimer' = NoTranslationTimer
  /\ UNCHANGED <<translationMaxWords, currentOriginal, segments, now, appEvt, dispVars,
                 limits, frame>>
  /\ sttEvt' = [op |-> "unmount", wasOpen |-> FALSE, why |-> "none", scheduled |-> FALSE,
                sent |-> "none", buffer |-> <<>>]
  /\ UNCHANGED <<detached, staleTimers, reconnectAttempts, isConnected, isListening,
                 connectionStatus, closes, delayLog>>

InitSTT ==
  /\ websocket = NoSocket
  /\ detached = EmptyBag
  /\ reconnectTimeout = NoTimer
  /\ staleTimers = EmptyBag
  /\ reconnectAttempts = 0
  /\ isConnected = FALSE
  /\ isListening = FALSE
  /\ connectionStatus = Status("Disconnected")
  /\ mounted = "init"
  /\ capturing = FALSE
  /\ closes = 0
  /\ delayLog = <<>>
  /\ sttEvt = [op |-> "init", wasOpen |-> FALSE, why |-> "none", scheduled |-> FALSE,
               sent |-> "none", buffer |-> <<>>]

\* toggleTTS.  Switching on creates the service if there is none, calls
\* connect() and waits; switching off clears the flag and disconnects.  The
\* control is clicked again once the previous click has been handled.
toggleTTS ==
  /\ mounted = "mounted" /\ ttsToggle = "idle"
  /\ IF ~ttsEnabled
     THEN /\ nConnects < MaxConnects
          /\ Connect
          /\ ttsToggle' = "connecting"
          /\ UNCHANGED <<pendingTranslations, translations, ttsEnabled, ttsEnabledRef,
                         isTtsConnected>>
     ELSE /\ ttsEnabled' = FALSE
          /\ ttsEnabledRef' = FALSE
          /\ Disconnect
          /\ isTtsConnected' = FALSE
          /\ UNCHANGED <<pendingTranslations, translations, ttsToggle>>
  /\ UNCHANGED <<sttVars, segVars, limits, frame>>

NextSTT ==
  \/ Mount
  \/ OnOpen
  \/ OnClose
  \/ TimerFire
  \/ ManualRetry
  \/ StopListening
  \/ StartListening
  \/ AudioProcess
  \/ Unmount

NextTTS ==
  \/ TTSConnect
  \/ TTSOnOpen
  \/ TTSOnClose
  \/ Speak
  \/ VoiceTimeout
  \/ ServerStep
  \/ TTSOnMessage
  \/ ResumeDone
  \/ DecodeDone
  \/ OnEnded
  \/ TTSDisconnect

\* The transcript: STT messages, the idle timer and the user's buttons.
\* Translations are dispatched and stay pending.
NextSegmenter ==
  \/ Mount
  \/ OnOpen
  \/ StartListening
  \/ StopListening
  \/ clearHistory
  \/ WordEvent
  \/ FinalEvent
  \/ MalformedEvent
  \/ IdleTimerFire

\* Translations: STT messages and the idle timer produce segments, the clock
\* advances, the backend answers, the user clears the history; TTS stays
\* switched off.
NextTranslate ==
  \/ Mount
  \/ OnOpen
  \/ clearHistory
  \/ WordEvent
  \/ FinalEvent
  \/ IdleTimerFire
  \/ Tick
  \/ TranslationResolved

\* Translations and speech: final events produce segments, the user switches
\* TTS on and off, the TTS server answers without audio.
NextDispatch ==
  \/ Mount
  \/ OnOpen
  \/ FinalEvent
  \/ Tick
  \/ TranslationResolved
  \/ toggleTTS
  \/ TTSOnOpen
  \/ TTSOnClose
  \/ VoiceTimeout
  \/ ServerStep
  \/ TTSOnMessage

\* Switching TTS on and off while a translation is spoken: the server sends
\* audio, which is decoded and played.
NextToggle ==
  \/ Mount
  \/ OnOpen
  \/ FinalEvent
  \/ TranslationResolved
  \/ toggleTTS
  \/ TTSOnOpen
  \/ TTSOnClose
  \/ VoiceTimeout
  \/ ServerStep
  \/ TTSOnMessage
  \/ ResumeDone
  \/ DecodeDone
  \/ OnEnded

(***************************************************************************)
(* Resampler (components/TranslationApp.tsx, resample)                     *)
(***************************************************************************)
MaxSamples == 4      \* the longest sample buffer explored

\* Sample values (integers stand for the floats) and the pairs of source
\* and target rate: every pair of small rates, and the rates of audio
\* hardware against the 24 kHz the STT server takes.
SampleValues == {-1, 0, 2, 4, 6}
RatePairs ==
  ({1, 2, 3} \X {1, 2, 3})
    \cup {<<48000, 24000>>, <<44100, 24000>>, <<24000, 24000>>, <<16000, 24000>>}

Buffers == UNION {[1..n -> SampleValues] : n \in 0..MaxSamples}

NoFrame == [samples |-> <<>>, fromRate |-> 0, toRate |-> 0, called |-> FALSE,
            result |-> <<>>, den |-> 1, reads |-> {}]

\* Math.round of the quotient n / d of two naturals, d > 0.
Round(n, d) == (2 * n + d) \div (2 * d)

\* samples[k] of the 0-based typed array; reading outside it gives undefined.
At(samples, k) == IF k \in 0..(Len(samples) - 1) THEN samples[k + 1] ELSE 0

\* A faulty variant: the upper neighbour is not clamped to the last sample.
resampleNoClamp(samples, fromRate, toRate) ==
  IF fromRate = toRate
  THEN [result |-> samples, den |-> 1, reads |-> {}]
  ELSE LET newLength == Round(Len(samples) * toRate, fromRate)
           srcIndexFloor(i) == (i * fromRate) \div toRate
           srcIndexCeil(i) == srcIndexFloor(i) + 1
           r(i) == (i * fromRate) % toRate
       IN [result |-> [j \in 1..newLength |->
                         At(samples, srcIndexFloor(j - 1)) * (toRate - r(j - 1))
                         + At(samples, srcIndexCeil(j - 1)) * r(j - 1)],
           den |-> toRate,
           reads |-> UNION {{srcIndexFloor(i), srcIndexCeil(i)} : i \in 0..(newLength - 1)}]

\* resample(samples, fromRate, toRate).  With ratio = fromRate / toRate the
\* source position of output i is i * ratio, whose integer part is
\* (i * fromRate) \div toRate and whose fraction t is r / toRate with
\* r = (i * fromRate) % toRate; the output values are kept as numerators over
\* the denominator den, and reads is the set of source indices the loop read.
resample(samples, fromRate, toRate) ==
  IF fromRate = toRate
  THEN [result |-> samples, den |-> 1, reads |-> {}]
  ELSE LET newLength == Round(Len(samples) * toRate, fromRate)
           srcIndexFloor(i) == (i * fromRate) \div toRate
           srcIndexCeil(i) == Min(srcIndexFloor(i) + 1, Len(samples) - 1)
           r(i) == (i * fromRate) % toRate
       IN [result |-> [j \in 1..newLength |->
                         At(samples, srcIndexFloor(j - 1)) * (toRate - r(j - 1))
                         + At(samples, srcIndexCeil(j - 1)) * r(j - 1)],
           den |-> toRate,
           reads |-> UNION {{srcIndexFloor(i), srcIndexCeil(i)} : i \in 0..(newLength - 1)}]

\* The call returns.
Resample ==
  /\ ~frame.called
  /\ LET out == resample(frame.samples, frame.fromRate, frame.toRate)
     IN frame' = [frame EXCEPT !.called = TRUE, !.result = out.result, !.den = out.den,
                               !.reads = out.reads]
  /\ UNCHANGED <<sttVars, ttsVars, appVars, limits>>

NextResample ==
  \/ Resample

Init ==
  /\ InitSTT /\ InitTTS /\ InitApp
  /\ frame = NoFrame
  /\ limits \in {QueueScenario, PlaybackScenario, SegmenterScenario, TranslateScenario,
                  DispatchScenario, ToggleScenario}

InitQueue == Init /\ limits = QueueScenario /\ translationMaxWords = DefaultMaxWords

InitPlayback == Init /\ limits = PlaybackScenario /\ translationMaxWords = DefaultMaxWords

InitSegmenter == Init /\ limits = SegmenterScenario /\ translationMaxWords \in 0..MaxWordsCfg

InitTranslate == Init /\ limits = TranslateScenario /\ translationMaxWords = DefaultMaxWords

InitDispatch == Init /\ limits = DispatchScenario /\ translationMaxWords = DefaultMaxWords

InitToggle == Init /\ limits = ToggleScenario /\ translationMaxWords = DefaultMaxWords

\* resample is called with any buffer and any pair of rates.
InitResample ==
  /\ InitSTT /\ InitTTS /\ InitApp
  /\ limits = QueueScenario /\ translationMaxWords = DefaultMaxWords
  /\ \E samples \in Buffers, rates \in RatePairs :
       frame = [NoFrame EXCEPT !.samples = samples, !.fromRate = rates[1],
                               !.toRate = rates[2]]

\* The STT session of the mounted component; the TTS service is not created
\* (toggleTTS is never clicked).
SpecSTT == InitQueue /\ [][NextSTT]_vars

\* The TTS service on its own: its callers and the server act, the STT
\* session stays as constructed.
SpecTTS == InitQueue /\ [][NextTTS]_vars

SpecPlayback == InitPlayback /\ [][NextTTS]_vars

SpecSegmenter == InitSegmenter /\ [][NextSegmenter]_vars

SpecTranslate == InitTranslate /\ [][NextTranslate]_vars

SpecDispatch == InitDispatch /\ [][NextDispatch]_vars

SpecToggle == InitToggle /\ [][NextToggle]_vars

SpecResample == InitResample /\ [][NextResample]_vars

(***************************************************************************)
(* Properties of the STT session                                           *)
(***************************************************************************)
TimerPending == reconnectTimeout.pending \/ staleTimers # EmptyBag

IsLive(s) == s.rs \in {"CONNECTING", "OPEN"}

\* The number of STT sockets that are CONNECTING or OPEN.
NumLive ==
  (IF IsLive(websocket) THEN 1 ELSE 0)
  + BagCardinality([s \in {x \in BagToSet(detached) : IsLive(x)} |-> detached[s]])

ExpectedDelays == <<1000, 2000, 4000, 8000, 16000>>

\* C6: the k-th consecutive close since the last open or manual retry
\* schedules a reconnect after min(1000 * 2^k, 30000) ms and increments the
\* attempt counter; up to the maximum of 5 the delays are exactly 1000, 2000,
\* 4000, 8000, 16000; an open resets the counter to zero.
C6_Backoff ==
  /\ reconnectAttempts = Min(closes, maxReconnectAttempts)
  /\ delayLog = SubSeq(ExpectedDelays, 1, Min(closes, maxReconnectAttempts))
  /\ \A k \in 1..Len(delayLog) : delayLog[k] = Min(1000 * (2 ^ (k - 1)), 30000)
  /\ (sttEvt.op = "close" /\ sttEvt.scheduled) =>
        reconnectTimeout = Timer(delayLog[Len(delayLog)])
  /\ sttEvt.op = "open" => reconnectAttempts = 0

C6_Witness == closes = 5 /\ delayLog = ExpectedDelays /\ sttEvt.op = "close"

\* C7: once the close that finds the counter at the maximum has happened, no
\* reconnect timer is pending and no socket is live, and nothing but a manual
\* retry (which resets the counter to 0) leaves that state or creates a socket.
C7_FailedIsTerminal ==
  /\ [](connectionStatus = MaxReached =>
          /\ reconnectAttempts = maxReconnectAttempts
          /\ ~TimerPending
          /\ NumLive = 0)
  /\ [][(connectionStatus = MaxReached /\ sttEvt'.op # "retry") =>
          /\ connectionStatus' = MaxReached
          /\ websocket'.rs = websocket.rs
          /\ detached' = detached
          /\ reconnectAttempts' = reconnectAttempts]_vars
  /\ [][sttEvt'.op = "retry" => reconnectAttempts' = 0]_vars

C7_Witness == connectionStatus = MaxReached /\ sttEvt.op = "close" /\ closes = 6

\* C8: a connectWebSocket call made while the socket is CONNECTING or OPEN
\* creates no socket and changes no connection state, and at most one STT
\* socket is CONNECTING or OPEN in every reachable state.
C8_SingleSocket ==
  /\ [](NumLive <= 1)
  /\ [][(sttEvt'.op \in {"mount", "timer", "retry"} /\ IsLive(websocket)) =>
          /\ websocket' = websocket
          /\ detached' = detached
          /\ connectionStatus' = connectionStatus
          /\ isConnected' = isConnected]_vars

C8_Witness == sttEvt.op = "retry" /\ websocket.rs = "CONNECTING"

\* C9: a reconnect is scheduled only by the close of a socket that had been
\* open and that the client neither asked to stop nor closed itself.
C9_ReconnectOnlyAfterUnexpectedDrop ==
  (sttEvt.op = "close" /\ sttEvt.scheduled) => (sttEvt.wasOpen /\ sttEvt.why = "none")

\* C10: after a manual connect and after the teardown no reconnect timer is
\* pending, also once the close event caused by the teardown has been handled.
C10_NoTimerAfterManualConnectOrTeardown ==
  (sttEvt.op = "retry" \/ mounted = "unmounted") => ~TimerPending

(***************************************************************************)
(* Properties of the TTS session                                           *)
(***************************************************************************)
Increasing(seq) == \A i, j \in 1..Len(seq) : i < j => seq[i] < seq[j]

OwnSynthesize(j) == [command |-> "synthesize", id |-> j]

\* C1: at most one synthesize command has been sent on the socket without
\* its terminal response (synthesis_completed or error) having been received.
C1_OneInFlight == Cardinality(inflight) <= 1

\* C2: synthesize commands are sent in the order of the speak() calls that
\* produced them (speak calls are numbered in call order).
C2_SendOrder == Increasing(synthLog)

\* C3: a speak() promise is resolved only by the synthesis_completed that
\* answers its own synthesize command, and rejected only by the error that
\* answers its own command or by the not-connected failure.
C3_OwnResponse ==
  \A j \in 1..Len(calls) :
    /\ calls[j].st = "resolved" =>
          calls[j].by = [type |-> "synthesis_completed", re |-> OwnSynthesize(j)]
    /\ calls[j].st = "rejected" =>
          \/ calls[j].by = NotConnected
          \/ calls[j].by = [type |-> "error", re |-> OwnSynthesize(j)]

\* C4: chunks are played in the order their audio_chunk messages arrived
\* (chunks are numbered in arrival order).
C4_PlayOrder == Increasing(playLog)

\* C5: at most one source is playing; a source is started only when none is
\* awaiting onended; when a source ends, the head of the queue is started in
\* that step if there is one, and otherwise isPlaying becomes false.
C5_OneSource ==
  /\ [](Cardinality(sources) <= 1 /\ (sources # {} => isPlaying))
  /\ [][(sources \ sources' # {} /\ audioContext' = "running") =>
          IF audioQueue # <<>>
          THEN /\ sources' = {Head(audioQueue)}
               /\ audioQueue' = Tail(audioQueue)
               /\ isPlaying'
          ELSE sources' = {} /\ ~isPlaying']_vars

C5_Witness == sources # {} /\ isPlaying /\ audioQueue # <<>>

\* C11: while the service is disconnected (from disconnect() until the next
\* connect()), the queues are empty, isPlaying and isProcessing are false, and
\* no step changes currentVoice or availableVoices: no callback left over
\* from before the disconnect changes them.
C11_NoCallbackAfterDisconnect ==
  /\ [](ws = "null" =>
          /\ audioQueue = <<>>
          /\ textQueue = <<>>
          /\ ~isPlaying
          /\ ~isProcessing)
  /\ [][(ws = "null" /\ ws' = "null") =>
          UNCHANGED <<currentVoice, availableVoices>>]_vars

(***************************************************************************)
(* Properties of the translation dispatcher                                *)
(***************************************************************************)
\* A translateAsync invocation returns from `await translateText` in this step.
Resolves(t) ==
  /\ t.st = "translating"
  /\ CopiesIn(t, translations') < CopiesIn(t, translations)

\* C12: speak is called only in a step that starts with ttsEnabledRef true
\* and the TTS socket open; a translation that resolves while ttsEnabledRef
\* is false calls no speak, sends no command and starts no playback.
C12_SpeakOnlyWhenEnabled ==
  /\ [][Len(calls') > Len(calls) => (ttsEnabledRef /\ ws = "OPEN")]_vars
  /\ [][((\E t \in BagToSet(translations) : Resolves(t)) /\ ~ttsEnabledRef) =>
          UNCHANGED <<calls, toServer, synthLog, chunkTasks, audioQueue, sources, playLog>>]_vars

\* A translation dispatched while TTS was on has resolved with a text while
\* TTS is off.
C12_Witness ==
  /\ appEvt.op = "translated" /\ appEvt.arg # <<>>
  /\ appEvt.tts /\ ~appEvt.spoke
  /\ ~ttsEnabledRef

(***************************************************************************)
(* Properties of the transcript segmenter                                  *)
(***************************************************************************)
\* The step handles a word event with a non-empty word.
WordStep == appEvt' # appEvt /\ appEvt'.op = "word" /\ appEvt'.arg # <<>>

\* The pending buffer with the word of this step added.
NewText == currentOriginal \o <<" ">> \o appEvt'.arg

EndsSentence(t) == t # <<>> /\ t[Len(t)] \in SentenceEnders

\* Exactly one segment, with the given original text, is appended in this step.
AppendsOne(text) ==
  /\ Len(segments') = Len(segments) + 1
  /\ SubSeq(segments', 1, Len(segments)) = segments
  /\ segments'[Len(segments')].original = text
  /\ segments'[Len(segments')].translated = <<>>

\* C13: a word that makes the trimmed buffer end in a sentence-end character
\* appends, in that step, exactly one segment whose original text is the
\* trimmed buffer, empties the buffer and leaves no idle timer pending.
C13_SentenceEndFlush ==
  [][(WordStep /\ EndsSentence(Trim(NewText))) =>
       /\ AppendsOne(Trim(NewText))
       /\ currentOriginal' = <<>>
       /\ ~translationTimer'.pending]_vars

\* The words "a" and "b." have produced the one segment "a b.".
C13_Witness ==
  /\ appEvt.op = "word" /\ appEvt.arg = <<"b", ".">>
  /\ Len(segments) = 1 /\ segments[1].original = <<"a", " ", "b", ".">>
  /\ currentOriginal = <<>> /\ ~translationTimer.pending

\* C14: a word without sentence end that brings the word count of the buffer
\* to translationMaxWords appends, in that step, exactly one segment with all
\* the buffered words, empties the buffer and cancels the idle timer; below
\* the maximum the step appends no segment.
C14_LengthFlush ==
  [][(WordStep /\ ~EndsSentence(Trim(NewText))) =>
       IF countWords(NewText) >= translationMaxWords
       THEN /\ AppendsOne(Trim(NewText))
            /\ currentOriginal' = <<>>
            /\ ~translationTimer'.pending
       ELSE /\ segments' = segments
            /\ currentOriginal' = NewText]_vars

\* With a maximum of two words, the second "a" has produced the segment "a a".
C14_Witness ==
  /\ translationMaxWords = 2
  /\ appEvt.op = "word" /\ appEvt.arg = <<"a">>
  /\ Len(segments) = 1 /\ segments[1].original = <<"a", " ", "a">>
  /\ currentOriginal = <<>> /\ ~translationTimer.pending

\* The idle timer fires in this step.
IdleStep == appEvt' # appEvt /\ appEvt'.op = "idle"

\* The step handles a final event.
FinalStep == appEvt' # appEvt /\ appEvt'.op = "final"

\* A segment is appended in this step.
FlushStep == Len(segments') > Len(segments)

\* C15: a word that triggers no flush (re)starts the one idle timer, which
\* holds the whole buffer; when it fires it is no longer pending and, the
\* text being non-blank, exactly one segment with the buffered words is
\* appended and the buffer emptied; every flush leaves no timer pending.
C15_IdleFlush ==
  /\ [][(WordStep /\ ~EndsSentence(Trim(NewText))
                  /\ countWords(NewText) < translationMaxWords) =>
          /\ translationTimer' = [pending |-> TRUE, text |-> NewText]
          /\ currentOriginal' = NewText]_vars
  /\ [][IdleStep =>
          /\ ~translationTimer'.pending
          /\ IF Trim(translationTimer.text) # <<>>
             THEN /\ AppendsOne(Trim(translationTimer.text))
                  /\ currentOriginal' = <<>>
             ELSE segments' = segments]_vars
  /\ [][FlushStep => ~translationTimer'.pending]_vars

\* The word "a" alone has been flushed by the idle timer.
C15_Witness ==
  /\ appEvt.op = "idle" /\ appEvt.n = 1
  /\ Len(segments) = 1 /\ segments[1].original = <<"a">>
  /\ currentOriginal = <<>> /\ ~translationTimer.pending

\* C16: after every final event, whatever its text, the buffer is empty and
\* no idle timer is pending.
C16_FinalAlwaysFlushes ==
  [][FinalStep => (currentOriginal' = <<>> /\ ~translationTimer'.pending)]_vars

\* C17: whichever trigger flushes, the segment appended holds the trimmed
\* content of the buffer at that moment (with the word just received, in a
\* word step) and the buffer is cleared.
C17_FlushEmitsBuffer ==
  [][FlushStep =>
       /\ AppendsOne(Trim(IF WordStep THEN NewText
                          ELSE IF IdleStep THEN translationTimer.text
                          ELSE currentOriginal))
       /\ currentOriginal' = <<>>]_vars

\* C18: no segment has an empty or blank original text.
C18_NoEmptySegment ==
  \A i \in 1..Len(segments) : Trim(segments[i].original) # <<>>

\* C19: a translateAsync call for an id that is in the pending set starts no
\* translation and changes neither the pending set nor the invocations in
\* progress; there is exactly one invocation in progress for every pending
\* id and none for any other id, so the id leaves the set when its
\* invocation finishes.
C19_PendingGuard ==
  /\ [][(FlushStep /\ segments'[Len(segments')].id \in pendingTranslations) =>
          UNCHANGED <<pendingTranslations, translations>>]_vars
  /\ [](/\ pendingTranslations = {t.id : t \in BagToSet(translations)}
        /\ \A t \in BagToSet(translations) : translations[t] = 1
        /\ \A t, u \in BagToSet(translations) : t.id = u.id => t = u)

\* A second segment got the id of a segment whose translation is still in
\* progress: one invocation, for the first segment's text.
C19_Witness ==
  /\ Len(segments) = 2 /\ segments[1].id = segments[2].id
  /\ segments[1].original # segments[2].original
  /\ segments[1].translated = <<>> /\ segments[2].translated = <<>>
  /\ BagCardinality(translations) = 1
  /\ \E t \in BagToSet(translations) : t.id = segments[1].id /\ t.text = segments[1].original

\* C20: a translation that resolves changes nothing of the segments but the
\* translated text of the segments whose id is that of the call: the length
\* and order of the collection, every id, original text and timestamp, and
\* the translated text of the other segments stay as they are.
C20_UpdateInPlace ==
  [][\A t \in BagToSet(translations) :
       Resolves(t) =>
         /\ Len(segments') = Len(segments)
         /\ \A i \in 1..Len(segments) :
              /\ segments'[i].id = segments[i].id
              /\ segments'[i].original = segments[i].original
              /\ segments'[i].timestamp = segments[i].timestamp
              /\ segments[i].id # t.id => segments'[i].translated = segments[i].translated
              /\ segments'[i].translated \in {segments[i].translated, Translate(t.text), <<>>}]_vars

\* The translation of the second segment has resolved while that of the
\* first is still in progress.
C20_Witness ==
  /\ appEvt.op = "translated" /\ appEvt.arg # <<>>
  /\ Len(segments) = 2 /\ segments[1].id # segments[2].id
  /\ segments[1].translated = <<>>
  /\ segments[2].translated = Translate(segments[2].original)
  /\ \E t \in BagToSet(translations) : t.id = segments[1].id /\ t.st = "translating"

(***************************************************************************)
\* C21: when translateText returns an error, the step changes no segment (the
\* segment keeps its translated text, empty unless an earlier call wrote
\* it), calls no speak and sends nothing to the TTS server, removes the id
\* from the pending set, and ends the invocation without starting another;
\* the invocations of the other segments stay in progress as they were.
C21_ErrorLeavesSegment ==
  [][(/\ appEvt'.op = "failed"
      /\ appEvt' # appEvt \/ \E t \in BagToSet(translations) : Resolves(t)) =>
       /\ segments' = segments
       /\ UNCHANGED <<calls, toServer, synthLog, textQueue>>
       /\ \E t \in BagToSet(translations) :
            /\ t.st = "translating"
            /\ pendingTranslations' = pendingTranslations \ {t.id}
            /\ translations' = translations (-) SetToBag({t})]_vars

\* With TTS on and connected, the translation of the first segment has
\* failed while that of the second is still in progress.
C21_Witness ==
  /\ appEvt.op = "failed" /\ ttsEnabledRef /\ ws = "OPEN"
  /\ Len(segments) = 2 /\ segments[1].id # segments[2].id
  /\ segments[1].translated = <<>>
  /\ pendingTranslations = {segments[2].id}
  /\ calls = <<>>

(***************************************************************************)
\* C22: in every reachable state the ids of the segments of the collection
\* are pairwise distinct, also when two flushes happen within the same clock
\* reading.
C22_UniqueIds ==
  \A i, j \in 1..Len(segments) : i # j => segments[i].id # segments[j].id

(***************************************************************************)
\* C23: when the 5 s timeout of a setVoice fires (a waiting speak call goes
\* on although no message was handled), the call enqueues its item in that
\* step and, with the socket open and nothing being processed, its
\* synthesize command is sent; a speak call made on an open socket, also
\* after a timeout, awaits its own setVoice or is enqueued at the tail and
\* sent if nothing is being processed; and with the socket open the queue
\* never holds items while nothing is being processed.
C23_TimeoutDoesNotBlock ==
  /\ [][\A id \in Awaiting :
          (calls'[id].st # "awaitVoice" /\ toClient' = toClient /\ ws' = ws) =>
            IF ws = "OPEN"
            THEN /\ calls'[id].st = "queued"
                 /\ \E k \in DOMAIN textQueue' : textQueue'[k] = id
                 /\ ~isProcessing => synthLog' = Append(synthLog, id)
            ELSE \/ calls'[id].st = "queued" /\ \E k \in DOMAIN textQueue' : textQueue'[k] = id
                 \/ calls'[id].st = "rejected" /\ calls'[id].by = NotConnected]_vars
  /\ [][(Len(calls') > Len(calls) /\ ws = "OPEN") =>
           LET id == Len(calls')
           IN \/ calls'[id].st = "awaitVoice" /\ toServer' # toServer
              \/ /\ calls'[id].st = "queued"
                 /\ textQueue' = Append(textQueue, id)
                 /\ ~isProcessing => synthLog' = Append(synthLog, id)]_vars
  /\ [](ws = "OPEN" /\ textQueue # <<>> => isProcessing)

\* The first speak call asked for another voice and its set_voice is still
\* unanswered, so only the timeout can have released it: its synthesize
\* command was sent and the next call is queued behind it.
C23_Witness ==
  /\ ws = "OPEN" /\ Len(calls) = 2
  /\ \E k \in DOMAIN toServer : toServer[k].command = "set_voice" /\ toServer[k].id = 1
  /\ textQueue = <<1, 2>> /\ synthLog = <<1>> /\ isProcessing
  /\ calls[1].st = "queued" /\ calls[2].st = "queued"

(***************************************************************************)
\* C24: a speak call made while the TTS socket is not open sends no command
\* (its setVoice throws before sending) and is rejected with the
\* not-connected error in the step of the call, whatever isProcessing and the
\* queue are, and its item is not left in the text queue.
C24_NotConnectedFailsAtOnce ==
  [][(Len(calls') > Len(calls) /\ ws # "OPEN") =>
       LET id == Len(calls')
       IN /\ toServer' = toServer
          /\ calls'[id].st = "rejected" /\ calls'[id].by = NotConnected
          /\ \A k \in DOMAIN textQueue' : textQueue'[k] # id]_vars

(***************************************************************************)
\* C25: currentVoice and availableVoices change only in a step that handles
\* a `voices` or `voice_changed` message; connect, speak, setVoice with its
\* timeout and error paths, the queue processor and disconnect leave both as
\* they are.
C25_VoicesOnlyFromServer ==
  /\ [][(currentVoice' # currentVoice \/ availableVoices' # availableVoices) =>
          /\ ws = "OPEN" /\ toClient # <<>>
          /\ Head(toClient).type \in {"voices", "voice_changed"}
          /\ toClient' = Tail(toClient)]_vars
  /\ [][(\/ Len(calls') > Len(calls)
          \/ \E id \in Awaiting : calls'[id].st # "awaitVoice"
          \/ synthLog' # synthLog
          \/ ws' # ws) =>
           \/ UNCHANGED <<currentVoice, availableVoices>>
           \/ /\ toClient # <<>> /\ toClient' = Tail(toClient)
              /\ Head(toClient).type = "voice_changed"]_vars

\* The voices received from the server and the voice changed for a Spanish
\* text are still there after disconnect().
C25_Witness ==
  /\ ws = "null"
  /\ currentVoice = "ef_dora"
  /\ availableVoices = ServerVoices
  /\ calls # <<>>

(***************************************************************************)
\* C26: a frame on the STT socket that is not JSON changes neither the
\* segments, the buffer, the idle timer, the translations in progress nor
\* anything of the connection, and the message that follows it is handled
\* from the state the frame found: a word is appended to the same buffer or
\* flushes it, a final message with text flushes its text.
C26_MalformedDropped ==
  /\ [][(appEvt' # appEvt /\ appEvt'.op = "malformed") =>
          UNCHANGED <<segments, currentOriginal, translationTimer, pendingTranslations,
                      translations, sttVars, ttsVars>>]_vars
  /\ [][(appEvt.op = "malformed" /\ WordStep) =>
          IF shouldTriggerTranslation(NewText)
          THEN AppendsOne(Trim(NewText)) /\ currentOriginal' = <<>>
          ELSE currentOriginal' = NewText /\ segments' = segments]_vars
  /\ [][(appEvt.op = "malformed" /\ appEvt'.op = "final" /\ Trim(appEvt'.arg) # <<>>) =>
          AppendsOne(Trim(appEvt'.arg))]_vars

\* A frame that is not JSON arrived between two words: the first word is
\* still buffered with its timer pending.
C26_Witness ==
  /\ appEvt.op = "malformed"
  /\ currentOriginal = <<" ", "a">>
  /\ translationTimer = startTranslationTimer(currentOriginal)
  /\ isListening

(***************************************************************************)
\* C27: an audio frame that the capture callback produces while the STT
\* socket is not OPEN is dropped: nothing is sent and nothing else changes,
\* so nothing is stored for later; a frame is sent only by a callback that
\* found the socket OPEN.
C27_FrameDroppedUnlessOpen ==
  [][sttEvt'.op = "audio" =>
       /\ sttEvt'.sent = "audio" <=> websocket.rs = "OPEN"
       /\ sttEvt'.sent \in {"audio", "none"}
       /\ UNCHANGED <<websocket, detached, reconnectTimeout, staleTimers, reconnectAttempts,
                      isConnected, isListening, connectionStatus, mounted, closes,
                      delayLog, capturing, appVars, ttsVars>>]_vars

\* The server closed the socket while audio was captured, and a frame
\* produced while the reconnection is pending was dropped.
C27_Witness ==
  /\ sttEvt.op = "audio" /\ sttEvt.sent = "none"
  /\ capturing /\ websocket.rs # "OPEN"
  /\ closes > 0

(***************************************************************************)
\* C28: disconnect() can be called in every state of the service; in the
\* state it leaves, the socket reference is null, the text queue and the
\* audio queue are empty and isPlaying and isProcessing are false; switching
\* TTS off performs this disconnect.
C28_DisconnectAnyState ==
  /\ [](ENABLED TTSDisconnect)
  /\ [][((ws # "null" /\ ws' = "null") \/ (ttsEnabledRef /\ ~ttsEnabledRef')) =>
          /\ ws' = "null"
          /\ textQueue' = <<>> /\ audioQueue' = <<>>
          /\ ~isPlaying' /\ ~isProcessing']_vars

\* TTS was switched off while a chunk of the spoken translation was playing
\* and the synthesis was still being processed.
C28_Witness ==
  /\ ~ttsEnabledRef /\ ~ttsEnabled /\ ttsToggle = "idle"
  /\ ws = "null" /\ textQueue = <<>> /\ audioQueue = <<>>
  /\ ~isPlaying /\ ~isProcessing
  /\ playLog # <<>> /\ sources = {}
  /\ \E j \in DOMAIN calls : calls[j].st = "queued"

(***************************************************************************)
\* C29: stopping cancels the pending idle timer, tears down the capture,
\* sends one stop message iff the socket is OPEN, sets listening to false
\* and leaves the segments unchanged; and after a stop, no firing of the
\* idle timer flushes words that were in the buffer when listening was
\* stopped.
C29_NoFlushOfWordsBeforeStop ==
  /\ [][(sttEvt' # sttEvt /\ sttEvt'.op = "stop") =>
          /\ ~translationTimer'.pending
          /\ ~capturing'
          /\ sttEvt'.sent = "stop" <=> websocket.rs = "OPEN"
          /\ ~isListening'
          /\ segments' = segments]_vars
  /\ [][(IdleStep /\ FlushStep /\ sttEvt.op = "stop" /\ Trim(sttEvt.buffer) # <<>>) =>
          ~(/\ Len(translationTimer.text) >= Len(sttEvt.buffer)
            /\ SubSeq(translationTimer.text, 1, Len(sttEvt.buffer)) = sttEvt.buffer)]_vars

(***************************************************************************)
\* C30: the step in which the user starts listening sends a start control
\* message to the STT server, so that the message precedes the audio frames.
C30_StartMessageSent ==
  [][(sttEvt' # sttEvt /\ sttEvt'.op = "start") => sttEvt'.sent = "start"]_vars

(***************************************************************************)
(* Properties of the resampler                                             *)
(***************************************************************************)
\* C31: with equal rates resample returns its input; otherwise it returns
\* round(N * Ft / Fs) samples, output i being the linear interpolation
\* between the source samples floor(i * Fs / Ft) and
\* min(floor(i * Fs / Ft) + 1, N - 1), every source index read lies in
\* 0..N-1, and for Fs = 48000, Ft = 24000 and input 0, 2, 4, 6 the output is
\* 0, 4.
C31_Resample ==
  frame.called =>
    LET N == Len(frame.samples)
        Fs == frame.fromRate
        Ft == frame.toRate
        lo(i) == (i * Fs) \div Ft
        hi(i) == IF lo(i) + 1 < N - 1 THEN lo(i) + 1 ELSE N - 1
    IN /\ Fs = Ft => frame.result = frame.samples /\ frame.den = 1
       /\ Fs # Ft =>
            /\ 2 * Fs * Len(frame.result) <= 2 * N * Ft + Fs
            /\ 2 * Fs * (Len(frame.result) + 1) > 2 * N * Ft + Fs
            /\ frame.reads \subseteq 0..(N - 1)
            /\ \A i \in 0..(Len(frame.result) - 1) :
                 /\ lo(i) \in 0..(N - 1) /\ hi(i) \in 0..(N - 1)
                 /\ frame.den = Ft
                 /\ frame.result[i + 1] =
                      frame.samples[lo(i) + 1] * (Ft - (i * Fs - lo(i) * Ft))
                      + frame.samples[hi(i) + 1] * (i * Fs - lo(i) * Ft)
       /\ (Fs = 48000 /\ Ft = 24000 /\ frame.samples = <<0, 2, 4, 6>>) =>
            /\ Len(frame.result) = 2
            /\ frame.result[1] = 0 * frame.den /\ frame.result[2] = 4 * frame.den

\* Four samples were resampled from 48 kHz to 24 kHz.
C31_Witness ==
  /\ frame.called
  /\ frame.fromRate = 48000 /\ frame.toRate = 24000
  /\ frame.samples = <<0, 2, 4, 6>>
  /\ Len(frame.result) = 2

\* C32: speak(text, languageCode) on an open socket sends set_voice and waits
\* for its outcome exactly when the voice mapped from the language differs
\* from currentVoice and is in availableVoices; otherwise it sends no
\* set_voice and enqueues at once.  However the wait ends, the item is
\* enqueued; every item and every synthesize command carries the locale
\* mapped from the language; and no call is rejected by the answer to its
\* own set_voice.
C32_VoiceBeforeEnqueue ==
  /\ [][(Len(calls') > Len(calls) /\ ws = "OPEN") =>
          LET id == Len(calls')
              voice == GetVoiceForLanguage(calls'[id].lang)
          IN IF voice # currentVoice /\ voice \in availableVoices
             THEN /\ toServer' = Append(toServer, Cmd("set_voice", id, voice, "none"))
                  /\ calls'[id].st = "awaitVoice"
                  /\ textQueue' = textQueue
             ELSE /\ \A k \in DOMAIN toServer' :
                       (toServer'[k].command = "set_voice" /\ toServer'[k].id = id) => FALSE
                  /\ calls'[id].st = "queued"
                  /\ textQueue' = Append(textQueue, id)]_vars
  /\ [][\A id \in Awaiting :
          calls'[id].st # "awaitVoice" =>
            \/ /\ calls'[id].st = "queued"
               /\ \E k \in DOMAIN textQueue' : textQueue'[k] = id
            \/ calls'[id].st = "rejected" /\ calls'[id].by = NotConnected]_vars
  /\ [](\A id \in DOMAIN calls :
          /\ calls[id].lang # "none" =>
               calls[id].language = GetKokoroxLanguage(calls[id].lang)
          /\ calls[id].st = "rejected" =>
               ~(calls[id].by.re.command = "set_voice" /\ calls[id].by.re.id = id))
  /\ [](\A k \in DOMAIN toServer :
          toServer[k].command = "synthesize" =>
            toServer[k].language = calls[toServer[k].id].language)

FailedChunks == {c \in DOMAIN chunkTasks : chunkTasks[c] = "failed"}

InSeq(x, s) == \E k \in DOMAIN s : s[k] = x

FairToggle ==
  /\ WF_vars(TTSOnOpen)
  /\ WF_vars(VoiceTimeout)
  /\ WF_vars(ServerStep)
  /\ WF_vars(TTSOnMessage)
  /\ WF_vars(ResumeDone)
  /\ WF_vars(DecodeDone)
  /\ WF_vars(OnEnded)
  /\ WF_vars(TranslationResolved)

SpecToggleFair == InitToggle /\ [][NextToggle]_vars /\ FairToggle

\* C34: every promise returned by speak() eventually settles, and every
\* segment id that entered the pending set eventually leaves it.
C34_SpeakSettles ==
  /\ \A id \in 1..PlaybackSpeak :
       (Len(calls) >= id) ~> (Len(calls) >= id /\ calls[id].st \in {"resolved", "rejected"})
  /\ \A id \in 0..MaxClock :
       (id \in pendingTranslations) ~> (id \notin pendingTranslations)

\* C35: a non-empty translated text of a segment is the translation of that
\* segment's own original text, and the step that appends a segment
\* dispatches one translation call for its id and text.
C35_OwnTranslation ==
  /\ [](\A i \in 1..Len(segments) :
          segments[i].translated # <<>> =>
            segments[i].translated = Translate(segments[i].original))
  /\ [][Len(segments') = Len(segments) + 1 =>
          LET seg == segments'[Len(segments')]
              t == Invocation(seg.id, seg.original, "translating", 0, ttsEnabledRef)
          IN CopiesIn(t, translations') = CopiesIn(t, translations) + 1]_vars

\* C36: whenever the idle timer is pending, the text it captured is the
\* pending transcript buffer, and with an empty buffer no idle timer is
\* pending; the firing of the idle timer never appends a segment made of
\* words that are no longer in the buffer.
C36_TimerMatchesBuffer ==
  /\ [](translationTimer.pending => translationTimer.text = currentOriginal)
  /\ [](currentOriginal = <<>> => ~translationTimer.pending)
  /\ [][(IdleStep /\ FlushStep) =>
          segments'[Len(segments')].original = Trim(currentOriginal)]_vars

\* C37: an audio frame is sent to the STT server only while isListening is
\* true.
C37_FramesOnlyWhileListening ==
  [][(sttEvt'.op = "audio" /\ sttEvt'.sent = "audio") => isListening]_vars

\* C38: a set_voice command is never sent while a synthesize command is in
\* flight: no step appends a set_voice to the commands sent while a
\* synthesize sent on this socket is still unanswered, and none is waiting
\* in front of the server together with an unanswered synthesize.
C38_NoVoiceSwitchInFlight ==
  /\ [][\A k \in DOMAIN toServer' :
          (k > Len(toServer) /\ toServer'[k].command = "set_voice") => inflight = {}]_vars
  /\ [](\A k \in DOMAIN toServer :
          toServer[k].command = "set_voice" =>
            \A j \in 1..(k - 1) : toServer[j].command # "synthesize")

\* C39: once every setVoice call has settled (resolved, rejected or timed
\* out) no wrapper is left on the socket's message handler: it is the base
\* handler installed by connect().
C39_BaseHandlerRestored ==
  [](Awaiting = {} => onmessage = <<>>)

\* C40: playback never stalls.  Whenever the audio queue is non-empty a
\* started source has not yet ended (its onended will start the next
\* buffer), and isPlaying is true only while such a source exists, also
\* after a disconnect() followed by a new connect().
C40_PlaybackNeverStalls ==
  /\ [](audioQueue # <<>> => sources # {})
  /\ [](isPlaying => sources # {})

====
